---- MODULE Spec2Model ----
(***************************************************************************)
(* Campaign orchestration core of agentcy: the Stage transition table,     *)
(* the CampaignController operations, the SQLite CampaignStore and the     *)
(* CLI campaign loop with its human gate.                                  *)
(***************************************************************************)
EXTENDS Integers, Sequences, FiniteSets, TLC

VARIABLES
    campaign,    \* the Campaign object held by the controller
    store,       \* the database: campaigns table and stage_results table
    now,         \* last value handed out by datetime.now()
    last,        \* the most recent operation: its arguments and its outcome
    execCalls,   \* per stage, how often a stage executor was invoked
    seq,         \* progress of a record_result / approve_stage / advance run
    aheadWrite,  \* a result was written for a stage after current_stage
    loaded,      \* what the most recent store.load returned
    pc,          \* position of the CLI process in _run_campaign_loop
    retries,     \* the loop's retry counter of the current iteration
    artifact,    \* the loop's local variable 'artifact'
    gate,        \* the GateResult the loop is reacting to
    exitCode,    \* exit code of the CLI process
    auto,        \* the loop's auto_approve argument
    reader,      \* a load in progress on another connection
    hashed,      \* the most recent pair of payloads fingerprinted
    rs,          \* a call of retry_stage: its arguments, progress and outcome
    passed,      \* per id, the tokens handed to update_cost since its first save
    agency,      \* the agency prototype: its JSON file and its CLI process
    ops          \* how many API operations or gate decisions were applied

vars == <<campaign, store, now, last, execCalls, seq, aheadWrite, loaded,
          pc, retries, artifact, gate, exitCode, auto, reader, hashed, rs,
          passed, agency, ops>>

\* state of the utilities, which the controller, the store and the loop
\* leave alone
side == <<hashed, rs, passed, agency>>

----------------------------------------------------------------------------
(* Bounds *)

MaxTime == 1        \* clock readings are 0..MaxTime
MaxBody == 2        \* distinct artifact contents an executor can produce
MaxOps == 3         \* API operations applied per behaviour
MaxGates == 2       \* gate decisions per behaviour of the campaign loop
MaxDepth == 1       \* nesting depth of the values of an input payload
MaxAttempts == 3    \* largest max_attempts handed to retry_stage

----------------------------------------------------------------------------
(* Python values *)

None == "none"
NoTime == -1        \* an absent datetime (approved_at = None)
NoHash == -1        \* an absent inputs_hash
NoExit == -1        \* the process has not exited


----------------------------------------------------------------------------
(* models/stages.py *)

INTAKE == "intake"
RESEARCH == "research"
STRATEGY == "strategy"
CREATIVE == "creative"
ACTIVATION == "activation"
PACKAGING == "packaging"
DONE == "done"

Stage == {INTAKE, RESEARCH, STRATEGY, CREATIVE, ACTIVATION, PACKAGING, DONE}

STAGE_ORDER ==
    <<INTAKE, RESEARCH, STRATEGY, CREATIVE, ACTIVATION, PACKAGING, DONE>>

TRANSITIONS ==
    [s \in Stage |->
        CASE s = INTAKE -> <<RESEARCH>>
          [] s = RESEARCH -> <<STRATEGY>>
          [] s = STRATEGY -> <<CREATIVE>>
          [] s = CREATIVE -> <<ACTIVATION>>
          [] s = ACTIVATION -> <<PACKAGING>>
          [] s = PACKAGING -> <<DONE>>
          [] s = DONE -> <<>>]

\* STAGE_ORDER.index(stage), 1-based
StageIndex(stage) ==
    CHOOSE i \in 1..Len(STAGE_ORDER) : STAGE_ORDER[i] = stage

\* next_stage that wraps around at the end of STAGE_ORDER
next_stage_wrapping(current) ==
    IF current \notin Stage
    THEN None
    ELSE LET idx == StageIndex(current)
         IN  STAGE_ORDER[(idx % Len(STAGE_ORDER)) + 1]

\* a value that is not in STAGE_ORDER makes index() raise ValueError, which
\* next_stage swallows
next_stage(current) ==
    IF current \notin Stage
    THEN None
    ELSE LET idx == StageIndex(current)
         IN  IF idx < Len(STAGE_ORDER) THEN STAGE_ORDER[idx + 1] ELSE None

\* can_transition that allows every later stage
can_transition_forward(current, target) ==
    StageIndex(target) > StageIndex(current)

can_transition(current, target) ==
    \E i \in 1..Len(TRANSITIONS[current]) : TRANSITIONS[current][i] = target

NoError == [type |-> "ok"]

\* StageTransitionError(current, target): the message names the pair and the
\* targets TRANSITIONS allows from current.
StageTransitionError(current, target) ==
    [type |-> "StageTransitionError", current |-> current, target |-> target,
     allowed |-> TRANSITIONS[current]]

\* the message StageTransitionError.__init__ hands to Exception: "Cannot
\* transition from {current} to {target}. Allowed: {allowed_str}", as the
\* sequence of its parts; TRANSITIONS lists at most one allowed stage
StageTransitionMessage(err) ==
    <<"Cannot transition from", err.current, "to", err.target, "Allowed:",
      IF err.allowed = <<>> THEN "none" ELSE err.allowed[1]>>

\* validate_transition: the error it raises, or NoError
validate_transition(current, target) ==
    IF ~can_transition(current, target)
    THEN StageTransitionError(current, target)
    ELSE NoError

----------------------------------------------------------------------------
(* Artifacts.  An artifact is either a pydantic model or a plain dict; its  *)
(* content is 'body'; 'ts' tells how its created_at field is held: as a     *)
(* datetime object, as a string, or not at all (the packaging dict).        *)

Bodies == 1..MaxBody

NoArtifact == [kind |-> None, body |-> 0, ts |-> None]

ModelStages == {RESEARCH, STRATEGY, CREATIVE, ACTIVATION}
ExecutorStages == ModelStages \cup {PACKAGING}

\* what the executor registered for a stage returns: _run_research ..
\* _run_activation return a model, _run_packaging returns a dict
ExecutorResult(stage, body) ==
    IF stage \in ModelStages
    THEN [kind |-> "model", body |-> body, ts |-> "datetime"]
    ELSE [kind |-> "dict", body |-> body, ts |-> None]

\* artifact.model_dump() if it is a model, else the dict itself
model_dump(a) == [a EXCEPT !.kind = "dict"]

\* json.dumps(artifact, default=str): the JSON text; a datetime is written
\* as the string str() makes of it
json_dumps(a) == <<"json", a.body, IF a.ts = "datetime" THEN "str" ELSE a.ts>>

\* json.loads(text): a dict again
json_loads(text) == [kind |-> "dict", body |-> text[2], ts |-> text[3]]

JsonRoundTrip(a) == json_loads(json_dumps(a))

\* _deserialize_artifact: model_class(**artifact); pydantic parses a
\* created_at string back into a datetime.  Other stages get PackageResult.
_deserialize_artifact(stage, a) ==
    IF stage \in ModelStages
    THEN [kind |-> "model", body |-> a.body, ts |-> "datetime"]
    ELSE [kind |-> "model", body |-> a.body, ts |-> a.ts]

----------------------------------------------------------------------------
(* Stage inputs and the idempotency hash.  An input dict is a sequence of   *)
(* <<key, value>> pairs in insertion order with numbers as keys.  A value  *)
(* is a number, a dict, or an object that json cannot encode and that      *)
(* holds a dict (a dataclass or model instance).                           *)

Num(n) == [tag |-> "num", n |-> n, items |-> <<>>]
Dict(pairs) == [tag |-> "dict", n |-> 0, items |-> pairs]
Obj(pairs) == [tag |-> "obj", n |-> 0, items |-> pairs]

EmptyInputs == <<>>

InputsSet ==
    { EmptyInputs,
      << <<2, Num(2)>>, <<1, Num(1)>> >> }

RECURSIVE InsertByKey(_, _)
InsertByKey(pair, sorted) ==
    IF sorted = <<>> THEN <<pair>>
    ELSE IF pair[1] <= Head(sorted)[1] THEN <<pair>> \o sorted
    ELSE <<Head(sorted)>> \o InsertByKey(pair, Tail(sorted))

\* sort_keys=True: the pairs of one dict in key order
RECURSIVE SortKeys(_)
SortKeys(inputs) ==
    IF inputs = <<>> THEN <<>>
    ELSE InsertByKey(Head(inputs), SortKeys(Tail(inputs)))

\* characters of a serialization
OPEN == 7
CLOSE == 8
QUOTE == 9

\* str(value), the default= hook of json.dumps: the repr of the value, in
\* which every dict shows its pairs in insertion order
RECURSIVE str(_)
RECURSIVE str_items(_)
str(v) ==
    IF v.tag = "num" THEN <<v.n>>
    ELSE <<OPEN>> \o str_items(v.items) \o <<CLOSE>>

str_items(pairs) ==
    IF pairs = <<>> THEN <<>>
    ELSE <<Head(pairs)[1]>> \o str(Head(pairs)[2]) \o str_items(Tail(pairs))

\* json.dumps(value, sort_keys=True, default=str): a dict is written with
\* its keys sorted and its values encoded in turn; a value json cannot
\* encode is replaced by the string str(value)
RECURSIVE dumps(_)
RECURSIVE dumps_items(_)
dumps(v) ==
    IF v.tag = "num" THEN <<v.n>>
    ELSE IF v.tag = "dict"
         THEN <<OPEN>> \o dumps_items(SortKeys(v.items)) \o <<CLOSE>>
    ELSE <<QUOTE>> \o str(v) \o <<QUOTE>>

dumps_items(sorted) ==
    IF sorted = <<>> THEN <<>>
    ELSE <<Head(sorted)[1]>> \o dumps(Head(sorted)[2])
         \o dumps_items(Tail(sorted))

\* the digest of a serialization, as a number (hashlib.sha256(...)[:16])
DigestModulus == 1000003

RECURSIVE Digest(_)
Digest(chars) ==
    IF chars = <<>> THEN 0
    ELSE (Head(chars) + 11 * Digest(Tail(chars))) % DigestModulus

\* the fingerprints of the payloads the controller is called with
HashOfInputs == [i \in InputsSet |-> Digest(dumps(Dict(i)))]

compute_inputs_hash(inputs) ==
    IF inputs \in InputsSet THEN HashOfInputs[inputs]
    ELSE Digest(dumps(Dict(inputs)))

----------------------------------------------------------------------------
(* models/campaign.py *)

StageResult(a, approved, approved_at, inputs_hash) ==
    [artifact |-> a, approved |-> approved, approved_at |-> approved_at,
     inputs_hash |-> inputs_hash]

NoResults == [s \in {} |-> StageResult(NoArtifact, FALSE, NoTime, NoHash)]

Campaign(id, brief, brand_name, created_at, updated_at) ==
    [id |-> id, brief |-> brief, brand_name |-> brand_name,
     template |-> "product-launch", current_stage |-> INTAKE,
     results |-> NoResults, created_at |-> created_at,
     updated_at |-> updated_at, total_tokens |-> 0, total_cost_usd |-> 0]

NoCampaign == [Campaign(None, None, None, NoTime, NoTime)
                 EXCEPT !.current_stage = None]

----------------------------------------------------------------------------
(* controller.py: each operation maps the campaign to the campaign after    *)
(* it, the value returned and the error raised.                             *)

has_stage_result(c, stage) == stage \in DOMAIN c.results

is_idempotent(c, stage, inputs) ==
    /\ has_stage_result(c, stage)
    /\ c.results[stage].inputs_hash = compute_inputs_hash(inputs)

\* advance without the approval check
advance_unchecked(c, t) ==
    LET current == c.current_stage
        target == next_stage(current)
    IN  IF target = None
        THEN [c |-> c, ret |-> None, err |-> NoError]
        ELSE [c |-> [c EXCEPT !.current_stage = target, !.updated_at = t],
              ret |-> target, err |-> NoError]

\* advance that asks for an approved result at INTAKE as well
advance_intake_checked(c, t) ==
    LET current == c.current_stage
        target == next_stage(current)
    IN  IF target = None
        THEN [c |-> c, ret |-> None, err |-> NoError]
        ELSE IF \/ ~has_stage_result(c, current)
                \/ ~c.results[current].approved
        THEN [c |-> c, ret |-> None,
              err |-> StageTransitionError(current, target)]
        ELSE [c |-> [c EXCEPT !.current_stage = target, !.updated_at = t],
              ret |-> target, err |-> NoError]

advance(c, t) ==
    LET current == c.current_stage
        target == next_stage(current)
    IN  IF target = None
        THEN [c |-> c, ret |-> None, err |-> NoError]
        ELSE IF /\ current # INTAKE
                /\ \/ ~has_stage_result(c, current)
                   \/ ~c.results[current].approved
        THEN [c |-> c, ret |-> None,
              err |-> StageTransitionError(current, target)]
        ELSE IF validate_transition(current, target) # NoError
        THEN [c |-> c, ret |-> None,
              err |-> validate_transition(current, target)]
        ELSE [c |-> [c EXCEPT !.current_stage = target, !.updated_at = t],
              ret |-> target, err |-> NoError]

\* record_result that also moves the campaign to the stage it records
record_result_moving(c, stage, a, approved, inputs_hash, t) ==
    LET result == StageResult(model_dump(a), approved,
                              IF approved THEN t ELSE NoTime, inputs_hash)
    IN  [c EXCEPT !.results = (stage :> result) @@ c.results,
                  !.current_stage = stage,
                  !.updated_at = t]

\* record_result that files the result under the stage after the one named
record_result_shifted(c, stage, a, approved, inputs_hash, t) ==
    LET result == StageResult(model_dump(a), approved,
                              IF approved THEN t ELSE NoTime, inputs_hash)
        key == IF next_stage(stage) = None THEN stage ELSE next_stage(stage)
    IN  [c EXCEPT !.results = (key :> result) @@ c.results,
                  !.updated_at = t]

\* record_result that never marks the result approved
record_result_unapproved(c, stage, a, approved, inputs_hash, t) ==
    LET result == StageResult(model_dump(a), FALSE, NoTime, inputs_hash)
    IN  [c EXCEPT !.results = (stage :> result) @@ c.results,
                  !.updated_at = t]

\* t: what datetime.now() reads while the operation runs
record_result(c, stage, a, approved, inputs_hash, t) ==
    LET result == StageResult(model_dump(a), approved,
                              IF approved THEN t ELSE NoTime, inputs_hash)
    IN  [c EXCEPT !.results = (stage :> result) @@ c.results,
                  !.updated_at = t]

\* approve_stage that stamps the time but leaves the flag as it was
approve_stage_unflagged(c, stage, t) ==
    IF ~has_stage_result(c, stage)
    THEN c
    ELSE [c EXCEPT !.results[stage].approved_at = t,
                   !.updated_at = t]

\* approve_stage that marks every recorded result approved
approve_stage_all(c, stage, t) ==
    IF ~has_stage_result(c, stage)
    THEN c
    ELSE [c EXCEPT !.results = [s \in DOMAIN c.results |->
                                  [c.results[s] EXCEPT !.approved = TRUE,
                                                       !.approved_at = t]],
                   !.updated_at = t]

approve_stage(c, stage, t) ==
    IF ~has_stage_result(c, stage)
    THEN c
    ELSE [c EXCEPT !.results[stage].approved = TRUE,
                   !.results[stage].approved_at = t,
                   !.updated_at = t]

\* StageExecutionError(stage, message, retryable)
StageExecutionError(stage, retryable) ==
    [type |-> "StageExecutionError", stage |-> stage,
     retryable |-> retryable]

\* what an executor does when it is called: it returns an artifact with
\* some content, or it raises, saying whether a retry could help
ExecOutcomes ==
    {[ok |-> TRUE, body |-> b, retryable |-> TRUE] : b \in Bodies}
    \cup {[ok |-> FALSE, body |-> 0, retryable |-> r] : r \in BOOLEAN}

\* run_stage that calls the executor a second time when it has failed
run_stage_retrying(c, stage, inputs, x, t) ==
    IF is_idempotent(c, stage, inputs)
    THEN [c |-> c, invoked |-> FALSE, calls |-> 0,
          err |-> NoError, cause |-> NoError,
          ret |-> _deserialize_artifact(stage, c.results[stage].artifact)]
    ELSE IF stage \notin ExecutorStages
    THEN [c |-> c, invoked |-> FALSE, calls |-> 0, ret |-> NoArtifact,
          cause |-> StageExecutionError(stage, FALSE),
          err |-> StageExecutionError(stage, TRUE)]
    ELSE IF ~x.ok
    THEN [c |-> c, invoked |-> TRUE, calls |-> 2, ret |-> NoArtifact,
          cause |-> StageExecutionError(stage, x.retryable),
          err |-> StageExecutionError(stage, TRUE)]
    ELSE [c |-> record_result(c, stage, ExecutorResult(stage, x.body), FALSE,
                              compute_inputs_hash(inputs), t),
          invoked |-> TRUE, calls |-> 1,
          err |-> NoError, cause |-> NoError,
          ret |-> ExecutorResult(stage, x.body)]

\* run_stage with the outcome x the executor will have if it is called;
\* 'invoked' tells whether it was called, 'cause' is the exception as
\* _execute_stage raised it.  Every exception of _execute_stage, its own
\* 'No executor' error included, is caught and re-raised as
\* StageExecutionError(stage, str(e)), whose retryable flag is the default,
\* True.
run_stage(c, stage, inputs, x, t) ==
    IF is_idempotent(c, stage, inputs)
    THEN [c |-> c, invoked |-> FALSE, calls |-> 0,
          err |-> NoError, cause |-> NoError,
          ret |-> _deserialize_artifact(stage, c.results[stage].artifact)]
    ELSE IF stage \notin ExecutorStages
    THEN [c |-> c, invoked |-> FALSE, calls |-> 0, ret |-> NoArtifact,
          cause |-> StageExecutionError(stage, FALSE),
          err |-> StageExecutionError(stage, TRUE)]
    ELSE IF ~x.ok
    THEN [c |-> c, invoked |-> TRUE, calls |-> 1, ret |-> NoArtifact,
          cause |-> StageExecutionError(stage, x.retryable),
          err |-> StageExecutionError(stage, TRUE)]
    ELSE [c |-> record_result(c, stage, ExecutorResult(stage, x.body), FALSE,
                              compute_inputs_hash(inputs), t),
          invoked |-> TRUE, calls |-> 1,
          err |-> NoError, cause |-> NoError,
          ret |-> ExecutorResult(stage, x.body)]

----------------------------------------------------------------------------
(* persistence/sqlite.py: the campaigns table maps an id to its row, the    *)
(* stage_results table maps an id to its rows, one per stage (UNIQUE        *)
(* (campaign_id, stage)).                                                   *)

NULL == <<>>

\* datetime.isoformat() and datetime.fromisoformat()
isoformat(t) == <<"iso", t>>
fromisoformat(text) == text[2]

NoRows == [s \in {} |-> NULL]

NoStore == [campaigns |-> [i \in {} |-> NULL],
            stage_results |-> [i \in {} |-> NoRows]]

\* a stage row without the inputs hash
_save_stage_result_unhashed(result) ==
    [artifact |-> json_dumps(result.artifact),
     approved |-> IF result.approved THEN 1 ELSE 0,
     approved_at |-> IF result.approved_at # NoTime
                     THEN isoformat(result.approved_at) ELSE NULL,
     inputs_hash |-> NoHash]

\* the values _save_stage_result binds for one result
_save_stage_result(result) ==
    [artifact |-> json_dumps(result.artifact),
     approved |-> IF result.approved THEN 1 ELSE 0,
     approved_at |-> IF result.approved_at # NoTime
                     THEN isoformat(result.approved_at) ELSE NULL,
     inputs_hash |-> result.inputs_hash]

\* save that writes the campaigns row and no stage result
save_row_only(st, c) ==
    LET exists == c.id \in DOMAIN st.campaigns
        row == [brief |-> c.brief, brand_name |-> c.brand_name,
                template |-> c.template, current_stage |-> c.current_stage,
                total_tokens |-> c.total_tokens,
                total_cost_usd |-> c.total_cost_usd,
                created_at |-> IF exists THEN st.campaigns[c.id].created_at
                               ELSE isoformat(c.created_at),
                updated_at |-> isoformat(c.updated_at)]
        old == IF c.id \in DOMAIN st.stage_results
               THEN st.stage_results[c.id] ELSE NoRows
    IN  [campaigns |-> (c.id :> row) @@ st.campaigns,
         stage_results |-> (c.id :> old) @@ st.stage_results]

\* save that writes nothing when the campaign already has a row
save_insert_only(st, c) ==
    IF c.id \in DOMAIN st.campaigns
    THEN st
    ELSE save_row_only(st, c)

\* save that replaces the stage rows of the id by the campaign's results
save_replacing(st, c) ==
    LET base == save_row_only(st, c)
    IN  [base EXCEPT !.stage_results =
            (c.id :> [s \in DOMAIN c.results |->
                        _save_stage_result(c.results[s])]) @@ @]

\* save: INSERT .. ON CONFLICT(id) DO UPDATE SET every column but id and
\* created_at; then one upsert per result of the campaign.  Rows of stages
\* the campaign holds no result for stay as they are.
save(st, c) ==
    LET exists == c.id \in DOMAIN st.campaigns
        row == [brief |-> c.brief, brand_name |-> c.brand_name,
                template |-> c.template, current_stage |-> c.current_stage,
                total_tokens |-> c.total_tokens,
                total_cost_usd |-> c.total_cost_usd,
                created_at |-> IF exists THEN st.campaigns[c.id].created_at
                               ELSE isoformat(c.created_at),
                updated_at |-> isoformat(c.updated_at)]
        old == IF c.id \in DOMAIN st.stage_results
               THEN st.stage_results[c.id] ELSE NoRows
        rows == [s \in DOMAIN c.results \cup DOMAIN old |->
                    IF s \in DOMAIN c.results
                    THEN _save_stage_result(c.results[s])
                    ELSE old[s]]
    IN  [campaigns |-> (c.id :> row) @@ st.campaigns,
         stage_results |-> (c.id :> rows) @@ st.stage_results]

\* a table without the rows of one id
WithoutId(table, id) == [i \in DOMAIN table \ {id} |-> table[i]]

\* delete that removes the campaigns row and leaves the stage_results rows
delete_row_only(st, id) ==
    [st |-> [st EXCEPT !.campaigns = WithoutId(st.campaigns, id)],
     ret |-> id \in DOMAIN st.campaigns]

\* delete: DELETE FROM stage_results, then DELETE FROM campaigns, in one
\* transaction; returns whether a campaigns row was deleted
delete(st, id) ==
    [st |-> [campaigns |-> WithoutId(st.campaigns, id),
             stage_results |-> WithoutId(st.stage_results, id)],
     ret |-> id \in DOMAIN st.campaigns]

\* update_cost: UPDATE campaigns SET total_tokens = total_tokens + ?,
\* total_cost_usd = total_cost_usd + ?, updated_at = now WHERE id = ?
update_cost(st, id, tokens, cost_usd, t) ==
    IF id \in DOMAIN st.campaigns
    THEN [st EXCEPT !.campaigns[id].total_tokens = @ + tokens,
                    !.campaigns[id].total_cost_usd = @ + cost_usd,
                    !.campaigns[id].updated_at = isoformat(t)]
    ELSE st

\* the Campaign that load builds from a campaigns row and the stage_results
\* rows of the id
CampaignFromRows(id, row, rows) ==
    [id |-> id, brief |-> row.brief, brand_name |-> row.brand_name,
     template |-> row.template,
     current_stage |-> row.current_stage,
     results |->
       [s \in DOMAIN rows |->
           StageResult(json_loads(rows[s].artifact),
                       rows[s].approved # 0,
                       IF rows[s].approved_at # NULL
                       THEN fromisoformat(rows[s].approved_at)
                       ELSE NoTime,
                       rows[s].inputs_hash)],
     created_at |-> fromisoformat(row.created_at),
     updated_at |-> fromisoformat(row.updated_at),
     total_tokens |-> row.total_tokens,
     total_cost_usd |-> row.total_cost_usd]

\* load: the Campaign built from the row and its stage_results rows, or
\* NoCampaign (None) when there is no row
load(st, id) ==
    IF id \notin DOMAIN st.campaigns
    THEN NoCampaign
    ELSE CampaignFromRows(id, st.campaigns[id], st.stage_results[id])

----------------------------------------------------------------------------
(* gates.py *)

APPROVE == "approve"
EDIT == "edit"
REGENERATE == "regenerate"
SKIP == "skip"
QUIT == "quit"

GateAction == {APPROVE, EDIT, REGENERATE, SKIP, QUIT}

\* GateResult(action, modified_artifact=None)
GateResult(action, modified_artifact) ==
    [action |-> action, modified_artifact |-> modified_artifact]

NoGate == GateResult(None, NoArtifact)

\* _handle_edit: a copy of the artifact dict with fields the user changed,
\* for the stages that have an editor; GateResult(APPROVE) for the others
_handle_edit(stage, a) ==
    IF stage \in ModelStages
    THEN {GateResult(EDIT, [a EXCEPT !.body = b]) : b \in Bodies}
    ELSE {GateResult(APPROVE, NoArtifact)}

\* prompt_gate: what the user's choices a, e, r, s, q can make it return
prompt_gate(stage, a) ==
    {GateResult(APPROVE, NoArtifact), GateResult(REGENERATE, NoArtifact),
     GateResult(SKIP, NoArtifact), GateResult(QUIT, NoArtifact)}
    \cup _handle_edit(stage, model_dump(a))

\* truth value of a dict or None: an empty dict and None are false
Truthy(a) == a.body # 0

----------------------------------------------------------------------------
(* The controller driven through its API: any operation on any stage.       *)

LastOp(op, stage, inputs, art, to, err, invoked) ==
    [op |-> op, stage |-> stage, inputs |-> inputs, art |-> art, to |-> to,
     err |-> err, invoked |-> invoked, cause |-> NoError, deleted |-> FALSE]

NoOp == LastOp(None, None, EmptyInputs, NoArtifact, None, NoError, FALSE)

SeqIdle == [step |-> 0, stage |-> None, upd |-> NoTime]

\* a stage lies after the campaign's current stage in STAGE_ORDER
IsAhead(c, stage) == StageIndex(stage) > StageIndex(c.current_stage)

\* the stages an API call names here: the current stage and the one after it
StageArgs(c) ==
    {s \in Stage : StageIndex(s) - StageIndex(c.current_stage) \in {0, 1}}

\* a campaign as the campaign loop leaves it in memory on reaching stage S:
\* every stage between INTAKE and S run with inputs {} and approved
ApprovedUpTo(S) ==
    [Campaign("c1", "b1", None, 0, 0) EXCEPT
        !.current_stage = S,
        !.results =
            [s \in {x \in ExecutorStages : StageIndex(x) < StageIndex(S)} |->
                StageResult(model_dump(ExecutorResult(s, 1)),
                            TRUE, 0, compute_inputs_hash(EmptyInputs))]]

\* the same campaign as resume hands it to a controller: saved, then loaded
PersistedAt(S) == load(save(NoStore, ApprovedUpTo(S)), "c1")

LoopIdle ==
    /\ pc = "idle" /\ retries = 0 /\ artifact = NoArtifact
    /\ gate = NoGate /\ exitCode = NoExit /\ auto = FALSE

NoReader == [pc |-> "idle", id |-> None, row |-> NULL, snaps |-> {}]

StoreIdle == reader = NoReader

----------------------------------------------------------------------------
(* agency (prototype): core/store.py, the JSON file of one campaign, and   *)
(* cli.py, the interactive pipeline.  A stage result is the number of its  *)
(* content, 0 standing for None.                                           *)

STAGES == <<"research", "strategy", "creative", "activation">>

\* the values of CampaignState.stage in pipeline order
StageValues == STAGES \o <<"done">>

StagePlace(st) == CHOOSE i \in 1..Len(StageValues) : StageValues[i] = st

\* no file .agency/<id>.json
NoFile ==
    [exists |-> FALSE, stage |-> "research",
     results |-> [st \in {STAGES[i] : i \in 1..4} |-> 0],
     created_at |-> NULL, updated_at |-> NULL]

\* Store.create: a CampaignState at stage research without results
create(t) ==
    [NoFile EXCEPT !.exists = TRUE, !.created_at = isoformat(t),
                   !.updated_at = isoformat(t)]

\* save_stage that moves the stage field and drops the result
save_stage_stage_only(f, stage, result, next, t) ==
    IF ~f.exists
    THEN [f |-> f, err |-> TRUE]
    ELSE [f |-> [f EXCEPT !.stage = next, !.updated_at = isoformat(t)],
          err |-> FALSE]

\* Store.save_stage: ValueError when the campaign is not found; else the
\* result is set, the stage field becomes next, and the file written
save_stage(f, stage, result, next, t) ==
    IF ~f.exists
    THEN [f |-> f, err |-> TRUE]
    ELSE [f |-> [f EXCEPT !.results[stage] = result, !.stage = next,
                          !.updated_at = isoformat(t)],
          err |-> FALSE]

\* Store.load_stage: None when there is no campaign or no data for the stage
load_stage(f, stage) == IF f.exists THEN f.results[stage] ELSE 0

\* what a stage function does: it returns a result or raises
StageOutcomes ==
    {[ok |-> TRUE, body |-> b] : b \in Bodies} \cup {[ok |-> FALSE, body |-> 0]}

\* the CLI process: where it is, the local 'current', the result shown at
\* the gate, the gate's last answer and how the process ended
Process(at, cmd, current, pending, answer, exit) ==
    [pc |-> at, cmd |-> cmd, current |-> current, pending |-> pending,
     answer |-> answer, exit |-> exit]

NoAgency ==
    [file |-> NoFile,
     proc |-> Process("idle", None, None, 0, None, None)]

----------------------------------------------------------------------------
(* Initial state *)

\* no payload fingerprinted yet
NoHashed == [p |-> EmptyInputs, q |-> EmptyInputs, hp |-> NoHash, hq |-> NoHash]

\* RetryExhausted(attempts, last_error)
RetryExhausted(attempts, last_error) ==
    [type |-> "RetryExhausted", attempts |-> attempts,
     last_error |-> last_error]

\* retry_stage is not running
NoRetry == [pc |-> "idle", max_attempts |-> 0, calls |-> 0, errors |-> <<>>,
            raised |-> NoError]

SideIdle ==
    /\ hashed = NoHashed
    /\ rs = NoRetry
    /\ passed = [id \in {"c1", "c2"} |-> 0]
    /\ agency = NoAgency

Init ==
    /\ campaign \in {PersistedAt(S) : S \in Stage}
    /\ store = NoStore
    /\ now = 0
    /\ last = NoOp
    /\ execCalls = [s \in Stage |-> 0]
    /\ seq = SeqIdle
    /\ aheadWrite = FALSE
    /\ loaded = NoCampaign
    /\ LoopIdle
    /\ StoreIdle
    /\ SideIdle
    /\ ops = 0

ApiFrame ==
    /\ ops < MaxOps
    /\ ops' = ops + 1
    /\ UNCHANGED <<store, now, loaded, pc, retries, artifact, gate, exitCode,
                   auto, reader>>

\* the wall clock moves on; datetime.now() reads 'now', so two operations
\* between which the clock has not ticked read the same time
Tick ==
    /\ now < MaxTime
    /\ now' = now + 1
    /\ UNCHANGED <<campaign, store, last, execCalls, side, seq, aheadWrite, loaded,
                   pc, retries, artifact, gate, exitCode, auto, reader, ops>>

Advance ==
    /\ ApiFrame
    /\ LET r == advance(campaign, now)
       IN  /\ campaign' = r.c
           /\ last' = LastOp("advance", campaign.current_stage, EmptyInputs,
                             NoArtifact, r.ret, r.err, FALSE)
    /\ seq' = IF seq.step = 2 THEN [seq EXCEPT !.step = 3] ELSE SeqIdle
    /\ UNCHANGED <<execCalls, aheadWrite, side>>

\* record_result called directly: inputs_hash keeps its default, None
RecordResult ==
    /\ ApiFrame
    /\ \E stage \in StageArgs(campaign), b \in Bodies, approved \in BOOLEAN :
        /\ campaign' = record_result(campaign, stage,
                           ExecutorResult(stage, b), approved, NoHash, now)
        /\ last' = LastOp("record_result", stage, EmptyInputs,
                          model_dump(ExecutorResult(stage, b)), None,
                          NoError, FALSE)
        /\ seq' = IF stage = campaign.current_stage /\ stage # DONE
                  THEN [step |-> 1, stage |-> stage,
                        upd |-> campaign.updated_at]
                  ELSE SeqIdle
        /\ aheadWrite' = (aheadWrite \/ IsAhead(campaign, stage))
    /\ UNCHANGED <<execCalls, side>>

ApproveStage ==
    /\ ApiFrame
    /\ \E stage \in StageArgs(campaign) :
        /\ campaign' = approve_stage(campaign, stage, now)
        /\ last' = LastOp("approve_stage", stage, EmptyInputs,
                          IF has_stage_result(campaign, stage)
                          THEN campaign.results[stage].artifact
                          ELSE NoArtifact,
                          None, NoError, FALSE)
        /\ seq' = IF seq.step = 1 /\ seq.stage = stage
                  THEN [seq EXCEPT !.step = 2]
                  ELSE SeqIdle
    /\ UNCHANGED <<execCalls, aheadWrite, side>>

\* the executor's outcome is drawn only when run_stage gets to call it
WillExecute(c, stage, inputs) ==
    ~is_idempotent(c, stage, inputs) /\ stage \in ExecutorStages

RunStage ==
    /\ ApiFrame
    /\ \E stage \in StageArgs(campaign), inputs \in InputsSet :
        \E x \in (IF WillExecute(campaign, stage, inputs)
                  THEN ExecOutcomes
                  ELSE {CHOOSE y \in ExecOutcomes : ~y.ok /\ y.retryable}) :
          LET r == run_stage(campaign, stage, inputs, x, now)
          IN  /\ campaign' = r.c
              /\ last' = [LastOp("run_stage", stage, inputs, r.ret, None,
                                 r.err, r.invoked) EXCEPT !.cause = r.cause]
              /\ execCalls' = [execCalls EXCEPT ![stage] = @ + r.calls]
              /\ UNCHANGED side
              /\ aheadWrite' = (aheadWrite \/
                                 (r.c # campaign /\ IsAhead(campaign, stage)))
    /\ seq' = SeqIdle

Next == Advance \/ RecordResult \/ ApproveStage \/ RunStage \/ Tick

Spec == Init /\ [][Next]_vars

----------------------------------------------------------------------------
(* models/stages.py called directly, next to a controller *)

\* validate_transition(current_stage, target) for any target; last.to holds
\* the target, last.err what was raised
ValidateTransition ==
    /\ ApiFrame
    /\ \E target \in Stage :
        last' = LastOp("validate_transition", campaign.current_stage,
                       EmptyInputs, NoArtifact, target,
                       validate_transition(campaign.current_stage, target),
                       FALSE)
    /\ seq' = SeqIdle
    /\ UNCHANGED <<campaign, execCalls, aheadWrite, side>>

StageNext ==
    ValidateTransition \/ Advance \/ RecordResult \/ ApproveStage \/ Tick

StageSpec == Init /\ [][StageNext]_vars

----------------------------------------------------------------------------
(* The store driven through its API, next to a controller *)

CampaignIds == {"c1", "c2"}

\* a new Campaign object: created_at and updated_at default to now()
NewCampaign ==
    /\ ApiFrame
    /\ \E id \in CampaignIds, brief \in {"b1", "b2"} :
        /\ campaign' = Campaign(id, brief, None, now, now)
        /\ last' = LastOp("Campaign", None, EmptyInputs, NoArtifact, id,
                          NoError, FALSE)
    /\ seq' = SeqIdle
    /\ UNCHANGED <<execCalls, aheadWrite, side>>

\* store.save(campaign): every statement of save runs in the one transaction
\* that _connect commits, so other connections see all of it at once.  A
\* load in progress elsewhere has then seen one more committed state.
Save ==
    /\ ops < MaxOps
    /\ ops' = ops + 1
    /\ store' = save(store, campaign)
    /\ last' = LastOp("save", None, EmptyInputs, NoArtifact, campaign.id,
                      NoError, FALSE)
    /\ seq' = SeqIdle
    /\ reader' = IF reader.pc = "row"
                 THEN [reader EXCEPT !.snaps = @ \cup {store'}]
                 ELSE reader
    /\ UNCHANGED <<campaign, now, execCalls, side, aheadWrite, loaded, pc, retries,
                   artifact, gate, exitCode, auto>>

\* store.load(campaign_id); last.to holds the id asked for
Load ==
    /\ ops < MaxOps
    /\ ops' = ops + 1
    /\ \E id \in CampaignIds :
        /\ loaded' = load(store, id)
        /\ last' = LastOp("load", None, EmptyInputs, NoArtifact, id,
                          NoError, FALSE)
    /\ seq' = SeqIdle
    /\ UNCHANGED <<campaign, store, now, execCalls, side, aheadWrite, pc, retries,
                   artifact, gate, exitCode, auto, reader>>

\* store.delete(campaign_id); last.deleted holds what it returned
Delete ==
    /\ ops < MaxOps
    /\ ops' = ops + 1
    /\ \E id \in CampaignIds :
        LET r == delete(store, id)
        IN  /\ store' = r.st
            /\ last' = [LastOp("delete", None, EmptyInputs, NoArtifact, id,
                                NoError, FALSE) EXCEPT !.deleted = r.ret]
    /\ seq' = SeqIdle
    /\ UNCHANGED <<campaign, now, execCalls, side, aheadWrite, loaded, pc, retries,
                   artifact, gate, exitCode, auto, reader>>

StoreNext ==
    \/ NewCampaign \/ RecordResult \/ Advance \/ Save \/ Load \/ Delete
    \/ Tick

StoreSpec == Init /\ [][StoreNext]_vars

----------------------------------------------------------------------------
(* A load on another connection while the controller's process saves.  A   *)
(* connection opens no transaction for a SELECT, so the two SELECTs of     *)
(* load are two reads of the database, and a commit can fall between them. *)

ReaderFrame ==
    UNCHANGED <<campaign, store, now, last, execCalls, side, seq, aheadWrite, pc,
                retries, artifact, gate, exitCode, auto, ops>>

\* load, first SELECT: the campaigns row; no row, and load returns None
LoadRow ==
    /\ reader.pc # "row"
    /\ \E id \in CampaignIds :
        IF id \in DOMAIN store.campaigns
        THEN /\ reader' = [pc |-> "row", id |-> id,
                           row |-> store.campaigns[id], snaps |-> {store}]
             /\ UNCHANGED loaded
        ELSE /\ reader' = [pc |-> "done", id |-> id, row |-> NULL,
                           snaps |-> {store}]
             /\ loaded' = NoCampaign
    /\ ReaderFrame

\* load, second SELECT: the stage_results rows, and the Campaign is built
LoadResults ==
    /\ reader.pc = "row"
    /\ loaded' = CampaignFromRows(reader.id, reader.row,
                      IF reader.id \in DOMAIN store.stage_results
                      THEN store.stage_results[reader.id]
                      ELSE NoRows)
    /\ reader' = [reader EXCEPT !.pc = "done"]
    /\ ReaderFrame

\* the campaign as resume left it, the store holding it
ConcInit ==
    /\ campaign \in {PersistedAt(S) : S \in Stage}
    /\ store = save(NoStore, campaign)
    /\ now = 0
    /\ last = NoOp
    /\ execCalls = [s \in Stage |-> 0]
    /\ seq = SeqIdle
    /\ aheadWrite = FALSE
    /\ loaded = NoCampaign
    /\ LoopIdle
    /\ StoreIdle
    /\ SideIdle
    /\ ops = 0

ConcNext ==
    \/ RecordResult \/ ApproveStage \/ Advance \/ Save
    \/ LoadRow \/ LoadResults \/ Tick

ConcSpec == ConcInit /\ [][ConcNext]_vars

----------------------------------------------------------------------------
(* archive/agentcy_v2/cli.py: the commands run and resume and the campaign  *)
(* loop.  pc is "idle" before a command, "run" where the loop is about to   *)
(* call run_stage, "gate" where it waits for the gate, "exit" when the      *)
(* process has ended.                                                       *)

max_retries == 3

\* resume that re-enters the loop at the first stage
EnterLoop_restarting(c, st, t) ==
    LET r == advance([c EXCEPT !.current_stage = INTAKE], t)
    IN  [c |-> r.c, st |-> save(st, r.c)]

\* top of _run_campaign_loop: from INTAKE, advance and save
EnterLoop(c, st, t) ==
    IF c.current_stage = INTAKE
    THEN LET r == advance(c, t)
         IN  [c |-> r.c, st |-> save(st, r.c)]
    ELSE [c |-> c, st |-> st]

\* a reaction that advances without saving
React_unsaved(c, st, g, t) ==
    LET current == c.current_stage
        Continue(c2, st2) ==
            IF c2.current_stage = DONE
            THEN [c |-> c2, st |-> st2, pc |-> "exit", exitCode |-> 0]
            ELSE [c |-> c2, st |-> st2, pc |-> "run", exitCode |-> NoExit]
        AdvanceOnly(c1) ==
            LET r == advance(c1, t)
            IN  IF r.err # NoError
                THEN [c |-> c1, st |-> st, pc |-> "exit", exitCode |-> 1]
                ELSE Continue(r.c, st)
    IN  CASE g.action \in {APPROVE, SKIP} ->
                AdvanceOnly(approve_stage(c, current, t))
          [] g.action = EDIT ->
                IF Truthy(g.modified_artifact)
                THEN AdvanceOnly(record_result(c, current,
                                     g.modified_artifact, TRUE, NoHash, t))
                ELSE Continue(c, st)
          [] g.action = REGENERATE -> Continue(c, st)
          [] g.action = QUIT ->
                [c |-> c, st |-> save(st, c), pc |-> "exit", exitCode |-> 0]

\* a reaction that marks the stage approved when the user quits
React_quit_approving(c, st, g, t) ==
    LET current == c.current_stage
        Continue(c2, st2) ==
            IF c2.current_stage = DONE
            THEN [c |-> c2, st |-> st2, pc |-> "exit", exitCode |-> 0]
            ELSE [c |-> c2, st |-> st2, pc |-> "run", exitCode |-> NoExit]
        AdvanceAndSave(c1) ==
            LET r == advance(c1, t)
            IN  IF r.err # NoError
                THEN [c |-> c1, st |-> st, pc |-> "exit", exitCode |-> 1]
                ELSE Continue(r.c, save(st, r.c))
    IN  CASE g.action \in {APPROVE, SKIP} ->
                AdvanceAndSave(approve_stage(c, current, t))
          [] g.action = EDIT ->
                IF Truthy(g.modified_artifact)
                THEN AdvanceAndSave(record_result(c, current,
                                        g.modified_artifact, TRUE, NoHash, t))
                ELSE Continue(c, st)
          [] g.action = REGENERATE -> Continue(c, st)
          [] g.action = QUIT ->
                [c |-> approve_stage(c, current, t),
                 st |-> save(st, approve_stage(c, current, t)),
                 pc |-> "exit", exitCode |-> 0]

\* the loop's reaction to the gate's result g, up to the next run_stage
\* call or the end of the process
React(c, st, g, t) ==
    LET current == c.current_stage
        Continue(c2, st2) ==
            IF c2.current_stage = DONE
            THEN [c |-> c2, st |-> st2, pc |-> "exit", exitCode |-> 0]
            ELSE [c |-> c2, st |-> st2, pc |-> "run", exitCode |-> NoExit]
        AdvanceAndSave(c1) ==
            LET r == advance(c1, t)
            IN  IF r.err # NoError
                THEN [c |-> c1, st |-> st, pc |-> "exit", exitCode |-> 1]
                ELSE Continue(r.c, save(st, r.c))
    IN  CASE g.action \in {APPROVE, SKIP} ->
                AdvanceAndSave(approve_stage(c, current, t))
          [] g.action = EDIT ->
                IF Truthy(g.modified_artifact)
                THEN AdvanceAndSave(record_result(c, current,
                                        g.modified_artifact, TRUE, NoHash, t))
                ELSE Continue(c, st)
          [] g.action = REGENERATE -> Continue(c, st)
          [] g.action = QUIT ->
                [c |-> c, st |-> save(st, c), pc |-> "exit", exitCode |-> 0]

LoopFrame ==
    UNCHANGED <<now, execCalls, seq, aheadWrite, loaded, reader, side>>

\* agentcy run: a new campaign is created and saved, and the loop entered
CmdRun ==
    /\ pc \in {"idle", "exit"}
    /\ "c1" \notin DOMAIN store.campaigns
    /\ \E a \in BOOLEAN :
        LET c0 == Campaign("c1", "b1", None, now, now)
            e == EnterLoop(c0, save(store, c0), now)
        IN  /\ campaign' = e.c
            /\ store' = e.st
            /\ auto' = a
    /\ pc' = "run"
    /\ retries' = 0
    /\ artifact' = NoArtifact
    /\ gate' = NoGate
    /\ exitCode' = NoExit
    /\ UNCHANGED <<last, ops>>
    /\ LoopFrame

\* agentcy resume <id>
Resume(id) ==
    /\ pc \in {"idle", "exit"}
    /\ LET c == load(store, id)
       IN  IF c = NoCampaign
           THEN /\ campaign' = c
                /\ pc' = "exit" /\ exitCode' = 1
                /\ UNCHANGED store
           ELSE IF c.current_stage = DONE
           THEN /\ campaign' = c
                /\ pc' = "exit" /\ exitCode' = 0
                /\ UNCHANGED store
           ELSE LET e == EnterLoop(c, store, now)
                IN  /\ campaign' = e.c
                    /\ store' = e.st
                    /\ pc' = "run" /\ exitCode' = NoExit
    /\ auto' = FALSE
    /\ retries' = 0
    /\ artifact' = NoArtifact
    /\ gate' = NoGate
    /\ UNCHANGED <<last, ops>>
    /\ LoopFrame

CmdResume == \E id \in CampaignIds : Resume(id)

\* one pass of the retry loop, run_stage(current, {}), the executor having
\* the outcome x if it is called
AttemptWith(x) ==
    LET current == campaign.current_stage
        r == run_stage(campaign, current, EmptyInputs, x, now)
    IN  /\ campaign' = r.c
        /\ last' = [LastOp("run_stage", current, EmptyInputs,
                           r.ret, None, r.err, r.invoked)
                      EXCEPT !.cause = r.cause]
        /\ IF r.err = NoError
           THEN /\ artifact' = r.ret
                /\ pc' = "gate"
                /\ UNCHANGED <<store, retries, exitCode>>
           ELSE /\ retries' = retries + 1
                /\ artifact' = NoArtifact
                /\ IF retries + 1 < max_retries /\ r.err.retryable
                   THEN UNCHANGED <<store, pc, exitCode>>
                   ELSE /\ store' = save(store, campaign)
                        /\ pc' = "exit"
                        /\ exitCode' = 1

Attempt ==
    /\ pc = "run"
    /\ \E x \in (IF WillExecute(campaign, campaign.current_stage, EmptyInputs)
                 THEN ExecOutcomes
                 ELSE {CHOOSE y \in ExecOutcomes : y.ok}) :
          AttemptWith(x)
    /\ UNCHANGED <<gate, auto, ops>>
    /\ LoopFrame

\* the loop's reaction to the gate result g
ReactTo(g) ==
    LET r == React(campaign, store, g, now)
    IN  /\ gate' = g
        /\ campaign' = r.c
        /\ store' = r.st
        /\ pc' = r.pc
        /\ exitCode' = r.exitCode
        /\ retries' = IF r.pc = "run" THEN 0 ELSE retries
        /\ artifact' = IF r.pc = "run" THEN NoArtifact ELSE artifact

\* the gate returns and the loop reacts
Gate ==
    /\ pc = "gate"
    /\ ops < MaxGates
    /\ ops' = ops + 1
    /\ \E g \in (IF auto
                 THEN {GateResult(APPROVE, NoArtifact)}
                 ELSE prompt_gate(campaign.current_stage, artifact)) :
          ReactTo(g)
    /\ UNCHANGED <<last, auto>>
    /\ LoopFrame

\* the database is new, or an earlier process has left a campaign in it
LoopInit ==
    /\ campaign = NoCampaign
    /\ store \in {NoStore} \cup {save(NoStore, ApprovedUpTo(S)) : S \in Stage}
    /\ now = 0
    /\ last = NoOp
    /\ execCalls = [s \in Stage |-> 0]
    /\ seq = SeqIdle
    /\ aheadWrite = FALSE
    /\ loaded = NoCampaign
    /\ LoopIdle
    /\ StoreIdle
    /\ SideIdle
    /\ ops = 0

LoopNext == CmdRun \/ CmdResume \/ Attempt \/ Gate \/ Tick

LoopSpec == LoopInit /\ [][LoopNext]_vars

----------------------------------------------------------------------------
(* Token accounting: update_cost and save on the store *)

TokenAmounts == {1, 2}

\* store.update_cost(id, tokens, cost_usd)
UpdateCost ==
    /\ ops < MaxOps
    /\ ops' = ops + 1
    /\ \E id \in CampaignIds, tokens \in TokenAmounts :
        /\ store' = update_cost(store, id, tokens, 1, now)
        /\ passed' = IF id \in DOMAIN store.campaigns
                     THEN [passed EXCEPT ![id] = @ + tokens]
                     ELSE passed
        /\ last' = LastOp("update_cost", None, EmptyInputs, NoArtifact, id,
                          NoError, FALSE)
    /\ seq' = SeqIdle
    /\ UNCHANGED <<campaign, now, execCalls, aheadWrite, loaded, pc, retries,
                   artifact, gate, exitCode, auto, reader, hashed, rs,
                   agency>>

CostNext == Save \/ UpdateCost \/ Load \/ Tick

CostSpec == Init /\ [][CostNext]_vars

----------------------------------------------------------------------------
(* Controller operations, gate reactions, save and delete in any order *)

\* the loop's reaction to a gate result for the current stage's result:
\* cli.py lines 115-148 applied to the campaign and the store
GateReaction ==
    /\ ops < MaxOps
    /\ ops' = ops + 1
    /\ campaign.current_stage \in ExecutorStages
    /\ has_stage_result(campaign, campaign.current_stage)
    /\ \E g \in prompt_gate(campaign.current_stage,
                            campaign.results[campaign.current_stage].artifact) :
        LET r == React(campaign, store, g, now)
        IN  /\ campaign' = r.c
            /\ store' = r.st
            /\ last' = LastOp("gate", campaign.current_stage, EmptyInputs,
                              g.modified_artifact, g.action, NoError, FALSE)
    /\ seq' = SeqIdle
    /\ UNCHANGED <<now, execCalls, side, aheadWrite, loaded, pc, retries,
                   artifact, gate, exitCode, auto, reader>>

\* (the clock stands still here: which stages have a result does not depend
\* on any time)
ResultsNext ==
    \/ NewCampaign \/ RecordResult \/ ApproveStage \/ Advance \/ RunStage
    \/ GateReaction \/ Save \/ Delete

ResultsSpec == Init /\ [][ResultsNext]_vars

----------------------------------------------------------------------------
(* agency (prototype): cli.py, the interactive pipeline *)

\* _run_interactive from the block of STAGES[i] on, the first stage
\* function called having the outcome x: the block of the current stage
\* runs its function and prompts; the blocks before it are passed, each
\* followed by the load of its result, without which the process exits 1
RECURSIVE Blocks(_, _, _, _, _)
Blocks(f, cmd, current, i, x) ==
    LET AfterBlock ==
            IF i <= 3 /\ load_stage(f, STAGES[i]) = 0
            THEN Process("exit", cmd, current, 0, None, "missing")
            ELSE Blocks(f, cmd, current, i + 1, x)
    IN  IF i = 5
        THEN Process("exit", cmd, current, 0, None, "complete")
        ELSE IF current = STAGES[i]
        THEN IF x.ok
             THEN Process("gate", cmd, current, x.body, None, None)
             ELSE Process("exit", cmd, current, 0, None, "raised")
        ELSE AfterBlock

AgencyFrame ==
    UNCHANGED <<campaign, store, now, last, execCalls, seq, aheadWrite,
                loaded, pc, retries, artifact, gate, exitCode, auto, reader,
                hashed, rs, passed, ops>>

\* agency run --interactive: a campaign with a new id is created
RunInteractive ==
    /\ agency.proc.pc \in {"idle", "exit"}
    /\ ~agency.file.exists
    /\ \E x \in StageOutcomes :
        LET f == create(now)
        IN  agency' = [file |-> f,
                       proc |-> Blocks(f, "run", f.stage, 1, x)]
    /\ AgencyFrame

\* agency resume <id>
AgencyResume ==
    /\ agency.proc.pc \in {"idle", "exit"}
    /\ \E x \in StageOutcomes :
        LET f == agency.file
        IN  agency' =
              [agency EXCEPT !.proc =
                  IF ~f.exists
                  THEN Process("exit", "resume", None, 0, None, "not_found")
                  ELSE Blocks(f, "resume", f.stage, 1, x)]
    /\ AgencyFrame

AgencyGateActions == {"approve", "regenerate", "skip", "quit"}

\* prompt_gate returns and the block of the current stage reacts
AgencyGate ==
    /\ agency.proc.pc = "gate"
    /\ \E g \in AgencyGateActions, x \in StageOutcomes :
        LET f == agency.file
            p == agency.proc
            i == StagePlace(p.current)
            next == StageValues[i + 1]
            saved == save_stage(f, p.current, p.pending,
                                IF g = "quit" THEN p.current ELSE next, now)
        IN  CASE g = "quit" ->
                   agency' =
                     [file |-> saved.f,
                      proc |-> Process("exit", p.cmd, p.current, p.pending,
                                       g, IF saved.err THEN "raised"
                                          ELSE "quit")]
              [] g = "regenerate" ->
                   agency' =
                     [agency EXCEPT !.proc =
                        IF x.ok
                        THEN Process("gate", p.cmd, p.current, x.body, g,
                                     None)
                        ELSE Process("exit", p.cmd, p.current, 0, g,
                                     "raised")]
              [] OTHER ->
                   agency' =
                     [file |-> saved.f,
                      proc |->
                        IF saved.err
                        THEN Process("exit", p.cmd, p.current, 0, g, "raised")
                        ELSE LET rest ==
                                   IF i <= 3
                                      /\ load_stage(saved.f, STAGES[i]) = 0
                                   THEN Process("exit", p.cmd, next, 0, None,
                                                "missing")
                                   ELSE Blocks(saved.f, p.cmd, next, i + 1, x)
                             IN  [rest EXCEPT !.answer = g]]
    /\ AgencyFrame

\* no campaign file yet
AgencyInit == LoopInit /\ store = NoStore

AgencyNext == RunInteractive \/ AgencyResume \/ AgencyGate

AgencySpec == AgencyInit /\ [][AgencyNext]_vars

----------------------------------------------------------------------------
(* compute_inputs_hash on structured payloads *)

Keys == {1, 2}

\* the dicts of at most two pairs with values from vals, in every key order
DictsOver(vals) ==
    {<<>>}
    \cup { << <<k, v>> >> : k \in Keys, v \in vals }
    \cup { << <<k[1], v1>>, <<k[2], v2>> >> :
             k \in {<<1, 2>>, <<2, 1>>}, v1 \in vals, v2 \in vals }

RECURSIVE Values(_)
Values(depth) ==
    IF depth = 0 THEN {Num(1), Num(2)}
    ELSE LET inner == DictsOver(Values(depth - 1))
         IN  {Num(1), Num(2)} \cup {Dict(d) : d \in inner}
             \cup {Obj(d) : d \in inner}

Payloads == DictsOver(Values(MaxDepth))

RemoveAt(seq_, i) == SubSeq(seq_, 1, i - 1) \o SubSeq(seq_, i + 1, Len(seq_))

\* the payloads with the same keys and values as a given one: the pairs of
\* every dict in it, at every depth, in any order
RECURSIVE Reordered(_)
RECURSIVE ReorderedValue(_)
Reordered(pairs) ==
    IF pairs = <<>> THEN {<<>>}
    ELSE UNION { { << <<pairs[i][1], v>> >> \o rest :
                     v \in ReorderedValue(pairs[i][2]),
                     rest \in Reordered(RemoveAt(pairs, i)) } :
                 i \in 1..Len(pairs) }

ReorderedValue(v) ==
    IF v.tag = "num" THEN {v}
    ELSE {[v EXCEPT !.items = d] : d \in Reordered(v.items)}

\* two payloads with the same keys and values are about to be fingerprinted
HashInit ==
    /\ campaign = PersistedAt(INTAKE)
    /\ store = NoStore
    /\ now = 0
    /\ last = NoOp
    /\ execCalls = [s \in Stage |-> 0]
    /\ seq = SeqIdle
    /\ aheadWrite = FALSE
    /\ loaded = NoCampaign
    /\ LoopIdle
    /\ StoreIdle
    /\ \E p \in Payloads : \E q \in Reordered(p) :
         hashed = [NoHashed EXCEPT !.p = p, !.q = q]
    /\ rs = NoRetry
    /\ passed = [id \in {"c1", "c2"} |-> 0]
    /\ agency = NoAgency
    /\ ops = 0

\* controller.compute_inputs_hash(p) and controller.compute_inputs_hash(q)
ComputeInputsHash ==
    /\ ops < 1
    /\ ops' = ops + 1
    /\ hashed' = [hashed EXCEPT !.hp = compute_inputs_hash(hashed.p),
                                !.hq = compute_inputs_hash(hashed.q)]
    /\ UNCHANGED <<campaign, store, now, last, execCalls, seq, aheadWrite,
                   loaded, pc, retries, artifact, gate, exitCode, auto,
                   reader, rs, passed, agency>>

HashNext == ComputeInputsHash

HashSpec == HashInit /\ [][HashNext]_vars

----------------------------------------------------------------------------
(* agentcy run --auto on a new database with executors that succeed.  The  *)
(* process is sequential and waits for nobody, so each of its steps is     *)
(* taken in the end; execCalls counts the executor calls here, and the     *)
(* clock stands still.                                                     *)

AutoFrame == UNCHANGED <<now, seq, aheadWrite, loaded, reader, side, ops>>

AutoRun ==
    /\ pc = "idle"
    /\ LET c0 == Campaign("c1", "b1", None, now, now)
           e == EnterLoop(c0, save(store, c0), now)
       IN  /\ campaign' = e.c
           /\ store' = e.st
    /\ auto' = TRUE
    /\ pc' = "run"
    /\ retries' = 0
    /\ artifact' = NoArtifact
    /\ gate' = NoGate
    /\ exitCode' = NoExit
    /\ UNCHANGED <<last, execCalls>>
    /\ AutoFrame

AutoAttempt ==
    /\ pc = "run"
    /\ \E x \in {y \in ExecOutcomes : y.ok} :
        /\ AttemptWith(x)
        /\ execCalls' =
             [execCalls EXCEPT ![campaign.current_stage] =
                 @ + run_stage(campaign, campaign.current_stage,
                               EmptyInputs, x, now).calls]
    /\ UNCHANGED <<gate, auto>>
    /\ AutoFrame

\* auto_approve: gate_result = GateResult(GateAction.APPROVE)
AutoGate ==
    /\ pc = "gate"
    /\ auto
    /\ ReactTo(GateResult(APPROVE, NoArtifact))
    /\ UNCHANGED <<last, auto, execCalls>>
    /\ AutoFrame

AutoInit == LoopInit /\ store = NoStore

\* the next step of the process
AutoStep == AutoRun \/ AutoAttempt \/ AutoGate

AutoNext == AutoRun \/ AutoAttempt \/ AutoGate

AutoSpec == AutoInit /\ [][AutoNext]_vars /\ WF_vars(AutoStep)

----------------------------------------------------------------------------
(* archive/agentcy_v2/retry.py: retry_stage(func, max_attempts), next to   *)
(* the campaign loop.  The loop does not call retry_stage: a behaviour     *)
(* uses the one or the other.                                              *)

\* what func() does when retry_stage calls it: it returns, or it raises a
\* StageExecutionError
FuncOutcomes ==
    {[ok |-> TRUE, err |-> NoError]}
    \cup {[ok |-> FALSE, err |-> StageExecutionError(s, r)] :
            s \in {RESEARCH, STRATEGY}, r \in BOOLEAN}

\* one pass of retry_stage's for loop, func() having the outcome x; after
\* the last pass the loop ends and RetryExhausted is raised
retry_stage(r, x) ==
    LET called == [r EXCEPT !.calls = @ + 1]
        failed == [called EXCEPT !.errors = Append(@, x.err)]
    IN  IF x.ok
        THEN [called EXCEPT !.pc = "returned"]
        ELSE IF ~x.err.retryable
        THEN [failed EXCEPT !.pc = "raised", !.raised = x.err]
        ELSE IF failed.calls < r.max_attempts
        THEN failed
        ELSE [failed EXCEPT !.pc = "raised",
                            !.raised = RetryExhausted(r.max_attempts, x.err)]

RetryFrame ==
    UNCHANGED <<campaign, store, now, last, execCalls, seq, aheadWrite,
                loaded, pc, retries, artifact, gate, exitCode, auto, reader,
                hashed, passed, agency, ops>>

\* retry_stage(func, max_attempts) is called; max_attempts defaults to 3
RetryStage ==
    /\ pc = "idle"
    /\ rs.pc = "idle"
    /\ \E m \in 1..MaxAttempts :
        rs' = [NoRetry EXCEPT !.pc = "try", !.max_attempts = m]
    /\ RetryFrame

RetryAttempt ==
    /\ rs.pc = "try"
    /\ \E x \in FuncOutcomes : rs' = retry_stage(rs, x)
    /\ RetryFrame

RetryNext ==
    \/ rs.pc = "idle" /\ LoopNext
    \/ RetryStage
    \/ RetryAttempt

RetrySpec == LoopInit /\ [][RetryNext]_vars

----------------------------------------------------------------------------
(* Properties of the controller API (specification Spec) *)

\* this step is a call of the API operation op
IsCall(op) == ops' = ops + 1 /\ last'.op = op

Approved(c, stage) ==
    has_stage_result(c, stage) /\ c.results[stage].approved

\* C1: from a current stage other than INTAKE and DONE, advance() raises
\* StageTransitionError and leaves current_stage alone when the stage has no
\* result or an unapproved one, and succeeds only when the result exists and
\* is approved.
C1_AdvanceNeedsApproval ==
    [][ (IsCall("advance") /\ campaign.current_stage \notin {INTAKE, DONE})
        => IF Approved(campaign, campaign.current_stage)
           THEN /\ last'.err = NoError
                /\ campaign'.current_stage # campaign.current_stage
           ELSE /\ last'.err.type = "StageTransitionError"
                /\ campaign'.current_stage = campaign.current_stage ]_vars

C1_Witness ==
    /\ last.op = "advance"
    /\ last.err.type = "StageTransitionError"
    /\ campaign.current_stage \notin {INTAKE, DONE}
    /\ has_stage_result(campaign, campaign.current_stage)
    /\ ~campaign.results[campaign.current_stage].approved

\* C2: when run_stage(S, inputs) has succeeded and is called again at once
\* with the same inputs, the second call does not invoke the executor and
\* returns an artifact equal to the one the first call returned.
C2_IdempotentReplay ==
    [][ ( /\ last.op = "run_stage" /\ last.err = NoError
          /\ IsCall("run_stage")
          /\ last'.stage = last.stage /\ last'.inputs = last.inputs )
        => /\ ~last'.invoked
           /\ last'.err = NoError
           /\ last'.art = last.art ]_vars

\* C3: current_stage changes only in advance(), and then from a stage to the
\* one that follows it in STAGE_ORDER; at DONE advance() returns none and
\* leaves the campaign as it is.
C3_OnlyAdvanceMovesStage ==
    [][ /\ (campaign'.current_stage # campaign.current_stage
              => /\ IsCall("advance")
                 /\ StageIndex(campaign'.current_stage)
                      = StageIndex(campaign.current_stage) + 1)
        /\ (IsCall("advance") /\ campaign.current_stage = DONE
              => last'.to = None /\ campaign' = campaign) ]_vars

C3_Witness ==
    /\ last.op = "advance" /\ last.stage = DONE
    /\ campaign.current_stage = DONE

ResultsAtOrBeforeCurrent ==
    \A s \in DOMAIN campaign.results :
        StageIndex(s) <= StageIndex(campaign.current_stage)

\* C9 as stated: after any sequence of controller operations the results
\* hold entries only for stages at or before current_stage.
C9_ResultsAtOrBeforeCurrent == ResultsAtOrBeforeCurrent

\* C9 amended: the results hold entries only for stages at or before
\* current_stage as long as no record_result or run_stage call has named a
\* stage after the then current stage.
C9_ResultsAtOrBeforeCurrentUnlessWrittenAhead ==
    ~aheadWrite => ResultsAtOrBeforeCurrent

C9_Witness ==
    /\ ~aheadWrite
    /\ last.op = "advance" /\ last.err = NoError
    /\ campaign.current_stage = CREATIVE
    /\ STRATEGY \in DOMAIN campaign.results
    /\ campaign.results[STRATEGY].inputs_hash = NoHash

\* C10 as stated: record_result(S), approve_stage(S), advance() from a
\* current stage S other than DONE leave current_stage at the successor of S
\* and updated_at strictly greater than before.
C10_RecordApproveAdvanceStrict ==
    seq.step = 3 =>
        /\ StageIndex(campaign.current_stage) = StageIndex(seq.stage) + 1
        /\ campaign.updated_at > seq.upd

\* C10 amended: the three calls leave current_stage at the successor of S and
\* updated_at not earlier than before; it is equal when the clock has not
\* ticked since updated_at was last stamped.
C10_RecordApproveAdvance ==
    seq.step = 3 =>
        /\ StageIndex(campaign.current_stage) = StageIndex(seq.stage) + 1
        /\ campaign.updated_at >= seq.upd

C10_Witness ==
    /\ seq.step = 3 /\ seq.stage = PACKAGING
    /\ campaign.current_stage = DONE
    /\ campaign.updated_at > seq.upd

----------------------------------------------------------------------------
(* Properties of the store (specification StoreSpec) *)

\* C4: save(c) followed at once by load(c.id) returns a campaign equal to c
\* in every field, holding exactly c's stage results, each with equal
\* artifact, approved flag, approved_at and inputs_hash, whatever the store
\* held before.
C4_SaveLoadRoundTrip ==
    [][ (last.op = "save" /\ IsCall("load") /\ last'.to = campaign.id)
        => loaded' = campaign ]_vars

----------------------------------------------------------------------------
(* Properties of the campaign loop (specification LoopSpec) *)

\* this step is the loop's reaction to a gate result
IsGateStep == pc = "gate" /\ pc' # "gate"

\* this step is a run_stage call of the retry loop
IsAttemptStep == pc = "run" /\ (pc' # "run" \/ retries' # retries)

\* what a load of the running campaign would return after this step
Persisted == load(store, campaign.id)

\* C5: when the gate returns regenerate at stage S, the loop discards S's
\* result, saves nothing and stays at S, and the next run_stage call of the
\* loop invokes the executor of S again.
C5_RegenerateRunsExecutorAgain ==
    [][ /\ (IsGateStep /\ gate'.action = REGENERATE
              => /\ ~has_stage_result(campaign', campaign.current_stage)
                 /\ store' = store
                 /\ campaign'.current_stage = campaign.current_stage)
        /\ (IsAttemptStep /\ gate.action = REGENERATE
              => last'.invoked) ]_vars

\* C6: when the gate returns approve or skip at stage S, the loop marks the
\* result of S approved, moves current_stage to next_stage(S) and saves: the
\* persisted campaign has S approved and current_stage = next_stage(S).
C6_ApproveOrSkipAdvancesAndSaves ==
    [][ (IsGateStep /\ gate'.action \in {APPROVE, SKIP})
        => LET S == campaign.current_stage
               p == load(store', campaign.id)
           IN  /\ Approved(campaign', S)
               /\ campaign'.current_stage = next_stage(S)
               /\ Approved(p, S)
               /\ p.current_stage = next_stage(S) ]_vars

C6_Witness ==
    /\ gate.action = SKIP /\ pc = "run" /\ retries = 0
    /\ campaign.current_stage = CREATIVE
    /\ Approved(campaign, STRATEGY)
    /\ Approved(Persisted, STRATEGY)
    /\ Persisted.current_stage = CREATIVE

\* C7: when the gate returns quit at stage S, the loop saves the campaign
\* with the result of S unapproved and current_stage still S and exits with
\* code 0; a process that has exited runs no stage.
C7_QuitSavesAndStops ==
    [][ /\ (IsGateStep /\ gate'.action = QUIT
              => LET S == campaign.current_stage
                     p == load(store', campaign.id)
                 IN  /\ campaign' = campaign
                     /\ has_stage_result(p, S) /\ ~p.results[S].approved
                     /\ p.results[S].artifact
                          = JsonRoundTrip(campaign.results[S].artifact)
                     /\ p.current_stage = S
                     /\ pc' = "exit" /\ exitCode' = 0)
        /\ (pc = "exit" => last' = last /\ pc' # "gate") ]_vars

C7_Witness ==
    /\ gate.action = QUIT /\ pc = "exit" /\ exitCode = 0
    /\ campaign.current_stage = RESEARCH
    /\ has_stage_result(Persisted, RESEARCH)
    /\ ~Persisted.results[RESEARCH].approved
    /\ Persisted.current_stage = RESEARCH
    /\ STRATEGY \notin DOMAIN Persisted.results

\* C8: when the gate returns edit with a modified artifact at stage S, the
\* result of S becomes that artifact, approved with approved_at set,
\* current_stage moves to next_stage(S) and the campaign is saved; so for
\* every modified artifact the gate returns.
C8_EditStoresApprovesAdvances ==
    [][ (IsGateStep /\ gate'.action = EDIT)
        => LET S == campaign.current_stage
               p == load(store', campaign.id)
           IN  /\ has_stage_result(campaign', S)
               /\ campaign'.results[S].artifact = gate'.modified_artifact
               /\ campaign'.results[S].approved
               /\ campaign'.results[S].approved_at = now
               /\ campaign'.current_stage = next_stage(S)
               /\ Approved(p, S)
               /\ p.results[S].artifact
                    = JsonRoundTrip(gate'.modified_artifact)
               /\ p.current_stage = next_stage(S) ]_vars

C8_Witness ==
    /\ gate.action = EDIT /\ pc = "run" /\ retries = 0
    /\ campaign.current_stage = ACTIVATION
    /\ last.op = "run_stage" /\ last.stage = CREATIVE
    /\ gate.modified_artifact.body # last.art.body
    /\ campaign.results[CREATIVE].artifact = gate.modified_artifact
    /\ campaign.results[CREATIVE].approved
    /\ campaign.results[CREATIVE].inputs_hash = NoHash
    /\ Persisted.current_stage = ACTIVATION
    /\ Approved(Persisted, CREATIVE)

----------------------------------------------------------------------------
(* Scenarios and pure functions of the controller (specification Spec) *)

\* a campaign as it is right after creation, and once advanced
NoResultsYet(c) == DOMAIN c.results = {}

AdvanceYields(target) ==
    /\ last'.err = NoError /\ last'.to = target
    /\ campaign'.current_stage = target

AdvanceRaises ==
    /\ last'.err.type = "StageTransitionError"
    /\ campaign'.current_stage = campaign.current_stage

\* C11 as stated: on a fresh campaign advance() yields RESEARCH; advance()
\* again raises StageTransitionError; after approve_stage(RESEARCH), with no
\* other operation in between, advance() yields STRATEGY.
C11_FreshScenarioAsStated ==
    [][ IsCall("advance") =>
          /\ (campaign.current_stage = INTAKE /\ NoResultsYet(campaign)
                => AdvanceYields(RESEARCH))
          /\ (last.op = "advance" /\ campaign.current_stage = RESEARCH
                /\ NoResultsYet(campaign)
                => AdvanceRaises)
          /\ (last.op = "approve_stage" /\ last.stage = RESEARCH
                /\ campaign.current_stage = RESEARCH
                => AdvanceYields(STRATEGY)) ]_vars

\* C11 amended: on a fresh campaign advance() yields RESEARCH; advance()
\* again raises StageTransitionError; after approve_stage(RESEARCH),
\* advance() yields STRATEGY if a result had been recorded for RESEARCH, and
\* raises StageTransitionError again if none had.
C11_FreshScenario ==
    [][ IsCall("advance") =>
          /\ (campaign.current_stage = INTAKE /\ NoResultsYet(campaign)
                => AdvanceYields(RESEARCH))
          /\ (last.op = "advance" /\ campaign.current_stage = RESEARCH
                /\ NoResultsYet(campaign)
                => AdvanceRaises)
          /\ (last.op = "approve_stage" /\ last.stage = RESEARCH
                /\ campaign.current_stage = RESEARCH
                => IF has_stage_result(campaign, RESEARCH)
                   THEN AdvanceYields(STRATEGY)
                   ELSE AdvanceRaises) ]_vars

C11_Witness ==
    /\ seq.step = 3 /\ seq.stage = RESEARCH
    /\ last.op = "advance" /\ last.to = STRATEGY
    /\ campaign.current_stage = STRATEGY
    /\ DOMAIN campaign.results = {RESEARCH}
    /\ campaign.results[RESEARCH].approved

\* next_stage applied n times, starting from s
RECURSIVE IterNext(_, _)
IterNext(s, n) ==
    IF n = 0 THEN s
    ELSE LET prev == IterNext(s, n - 1)
         IN  next_stage(prev)

FixedOrder ==
    <<"intake", "research", "strategy", "creative", "activation",
      "packaging", "done">>

PlaceInFixedOrder(S) == CHOOSE k \in 1..7 : FixedOrder[k] = S

\* the current stage has the successor the fixed order gives it, and is
\* what next_stage yields from INTAKE after as many steps as lie before it
SuccessorInFixedOrder ==
    LET S == campaign.current_stage
        k == PlaceInFixedOrder(S)
    IN  /\ S # "done" => next_stage(S) = FixedOrder[k + 1]
        /\ IterNext("intake", k - 1) = S

\* C12: every stage but DONE has the one successor the fixed order gives it;
\* of seven successive applications of next_stage starting at INTAKE the
\* sixth reaches DONE and the seventh then returns none.
C12_NextStageChain ==
    /\ SuccessorInFixedOrder
    /\ \A n \in 1..5 : IterNext("intake", n) \notin {"done", None}
    /\ IterNext("intake", 6) = "done"
    /\ IterNext("intake", 7) = None

C12_Witness ==
    /\ last.op = "advance" /\ last.stage = PACKAGING /\ last.to = DONE
    /\ campaign.current_stage = DONE
    /\ next_stage(campaign.current_stage) = None

----------------------------------------------------------------------------
(* Properties of the stage functions (specification StageSpec) *)

\* C13: validate_transition(S, T) succeeds exactly when T = next_stage(S),
\* and can_transition(S, T) is true for exactly those pairs; otherwise it
\* raises a StageTransitionError naming S, T and the allowed target of S
\* (none for DONE, which has no successor).
C13_ValidateTransitionIffNext ==
    last.op = "validate_transition" =>
        LET S == last.stage
            T == last.to
        IN  /\ (last.err = NoError) <=> (T = next_stage(S))
            /\ can_transition(S, T) <=> (T = next_stage(S))
            /\ last.err # NoError =>
                 /\ last.err.type = "StageTransitionError"
                 /\ last.err.current = S
                 /\ last.err.target = T
                 /\ last.err.allowed = IF next_stage(S) = None
                                       THEN <<>>
                                       ELSE <<next_stage(S)>>

C13_Witness ==
    /\ last.op = "validate_transition"
    /\ last.stage = RESEARCH /\ last.to = INTAKE
    /\ last.err.type = "StageTransitionError"
    /\ last.err.allowed = <<STRATEGY>>

----------------------------------------------------------------------------
(* Frame and failure properties of the controller (specification Spec) *)

\* C14: approve_stage(S) returns none and changes nothing when S has no
\* result; otherwise it sets that result's approved to true and approved_at
\* to the current time and leaves its artifact and inputs_hash, every other
\* stage's result and current_stage as they were.
C14_ApproveStageFrame ==
    [][ IsCall("approve_stage") =>
          LET S == last'.stage
          IN  IF ~has_stage_result(campaign, S)
              THEN campaign' = campaign /\ last'.art = NoArtifact
              ELSE /\ DOMAIN campaign'.results = DOMAIN campaign.results
                   /\ campaign'.results[S].approved
                   /\ campaign'.results[S].approved_at = now
                   /\ campaign'.results[S].artifact
                        = campaign.results[S].artifact
                   /\ campaign'.results[S].inputs_hash
                        = campaign.results[S].inputs_hash
                   /\ \A s \in DOMAIN campaign.results \ {S} :
                        campaign'.results[s] = campaign.results[s]
                   /\ campaign'.current_stage = campaign.current_stage
        ]_vars

C14_Witness ==
    /\ last.op = "approve_stage" /\ last.stage = STRATEGY
    /\ campaign.current_stage = STRATEGY
    /\ {STRATEGY, CREATIVE} \subseteq DOMAIN campaign.results
    /\ campaign.results[STRATEGY].approved
    /\ campaign.results[STRATEGY].approved_at = now
    /\ ~campaign.results[CREATIVE].approved

\* C15: a failed run_stage raises a StageExecutionError that carries the
\* stage and the retryable flag the failure was raised with: false for
\* 'no executor for stage' and for a failure the executor marks
\* non-retryable, true for a retryable one.
C15_RetryableFlagSurfaces ==
    [][ (IsCall("run_stage") /\ last'.err # NoError)
        => /\ last'.err.type = "StageExecutionError"
           /\ last'.err.stage = last'.stage
           /\ last'.err.retryable = last'.cause.retryable ]_vars

\* C16: the StageTransitionError that advance() raises because the current
\* stage has no result or an unapproved one says 'not approved'.
C16_AdvanceErrorSaysNotApproved ==
    [][ (IsCall("advance") /\ last'.err.type = "StageTransitionError")
        => \E i \in DOMAIN StageTransitionMessage(last'.err) :
             StageTransitionMessage(last'.err)[i] = "not approved" ]_vars

\* C17: one run_stage call invokes the stage executor at most once; when the
\* executor fails the call raises StageExecutionError without invoking it
\* again and leaves the results and current_stage as they were.
C17_NoRetryInController ==
    [][ IsCall("run_stage") =>
          LET S == last'.stage
          IN  /\ execCalls'[S] - execCalls[S] \in {0, 1}
              /\ \A s \in Stage \ {S} : execCalls'[s] = execCalls[s]
              /\ last'.err # NoError =>
                   /\ last'.err.type = "StageExecutionError"
                   /\ last'.invoked => execCalls'[S] = execCalls[S] + 1
                   /\ campaign'.results = campaign.results
                   /\ campaign'.current_stage = campaign.current_stage
        ]_vars

C17_Witness ==
    /\ last.op = "run_stage" /\ last.invoked
    /\ last.err.type = "StageExecutionError"
    /\ last.stage = CREATIVE /\ campaign.current_stage = CREATIVE
    /\ execCalls[CREATIVE] = 2
    /\ ~has_stage_result(campaign, CREATIVE)

----------------------------------------------------------------------------
(* Properties of a load concurrent with saves (specification ConcSpec) *)

\* C18: a load concurrent with saves of the same campaign returns the
\* campaign as one of the committed states held it, entirely before or
\* entirely after each save, never the row of one and the results of
\* another.
C18_LoadSeesOneCommittedState ==
    reader.pc = "done" =>
        loaded \in {load(s, reader.id) : s \in reader.snaps}

----------------------------------------------------------------------------
(* Persistence properties of the campaign loop (specification LoopSpec) *)

\* C19: whenever the loop hands control to the gate or the process has
\* exited, the store holds the campaign with every mutation made so far, the
\* result just recorded by run_stage included: saving it again would change
\* nothing.
C19_PersistedAtGateAndExit ==
    (pc \in {"gate", "exit"} /\ campaign # NoCampaign)
        => save(store, campaign) = store

\* C20: when a stage fails for good in the loop, by an error raised as not
\* retryable or by the last allowed retry failing, the loop saves the
\* campaign and exits with code 1, and the persisted campaign holds every
\* result recorded so far with its approval flag.
C20_UnrecoverableFailureSaved ==
    [][ ( /\ IsAttemptStep
          /\ last'.err # NoError
          /\ (~last'.cause.retryable \/ retries' >= max_retries) )
        => /\ pc' = "exit" /\ exitCode' = 1
           /\ LET p == load(store', campaign.id)
              IN  /\ p.current_stage = campaign.current_stage
                  /\ \A s \in DOMAIN campaign.results :
                       /\ s \in DOMAIN p.results
                       /\ p.results[s].approved = campaign.results[s].approved
        ]_vars

----------------------------------------------------------------------------
(* More properties of the store (specification StoreSpec) *)

\* C21: delete(id) returns true exactly when a campaign with that id was
\* stored; afterwards load(id) returns none and no stage result of the id
\* remains, so that a new campaign saved under the id loads with only its
\* own results; campaigns with other ids are as they were.
C21_DeleteCascades ==
    [][ IsCall("delete") =>
          LET id == last'.to
              fresh == Campaign(id, "b2", None, now, now)
          IN  /\ last'.deleted <=> (id \in DOMAIN store.campaigns)
              /\ load(store', id) = NoCampaign
              /\ id \notin DOMAIN store'.stage_results
              /\ load(save(store', fresh), id).results = NoResults
              /\ \A other \in CampaignIds \ {id} :
                   load(store', other) = load(store, other) ]_vars

C21_Witness ==
    /\ last.op = "delete" /\ last.deleted /\ last.to = campaign.id
    /\ DOMAIN campaign.results # {}
    /\ load(store, campaign.id) = NoCampaign

----------------------------------------------------------------------------
(* Properties of compute_inputs_hash (specification HashSpec) *)

\* C22: two input payloads with the same keys and values, given in any key
\* order at any nesting depth, have the same fingerprint.
C22_KeyOrderInsensitive ==
    hashed.hp # NoHash => hashed.hp = hashed.hq

\* a payload made of dicts and numbers only
RECURSIVE JsonOnly(_)
JsonOnly(pairs) ==
    \A i \in 1..Len(pairs) :
        /\ pairs[i][2].tag # "obj"
        /\ JsonOnly(pairs[i][2].items)

\* what holds: key order is immaterial where every value is a dict or a
\* number
KeyOrderInsensitiveForJson ==
    (hashed.hp # NoHash /\ JsonOnly(hashed.p)) => hashed.hp = hashed.hq

----------------------------------------------------------------------------
(* Properties over controller, gate and store (specification ResultsSpec) *)

----------------------------------------------------------------------------
(* More properties of the campaign loop (specification LoopSpec) *)

\* C24: resume of an id with no stored campaign exits 1 without running a
\* stage; resume of a DONE campaign exits 0 without running a stage or
\* changing the store; otherwise the loop continues from the persisted
\* current_stage, and an executor is only ever invoked for the stage the
\* store has as current_stage, never for one approved and advanced past.
C24_ResumeContinues ==
    [][ /\ \A id \in CampaignIds :
             Resume(id) =>
               LET c == load(store, id)
               IN  IF c = NoCampaign
                   THEN pc' = "exit" /\ exitCode' = 1 /\ store' = store
                   ELSE IF c.current_stage = DONE
                   THEN pc' = "exit" /\ exitCode' = 0 /\ store' = store
                   ELSE /\ pc' = "run"
                        /\ campaign'.results = c.results
                        /\ campaign'.current_stage =
                             IF c.current_stage = INTAKE
                             THEN next_stage(INTAKE) ELSE c.current_stage
                        /\ load(store', id).current_stage
                             = campaign'.current_stage
        /\ (IsAttemptStep /\ last'.invoked) =>
               /\ last'.stage = load(store, campaign.id).current_stage
               /\ ~ ( /\ has_stage_result(campaign, last'.stage)
                      /\ campaign.results[last'.stage].approved ) ]_vars

\* a campaign stored at CREATIVE was resumed and the CREATIVE executor, no
\* earlier one, has run
C24_Witness ==
    /\ pc = "gate" /\ ops = 0 /\ last.op = "run_stage" /\ last.invoked
    /\ last.stage = CREATIVE /\ campaign.current_stage = CREATIVE
    /\ {RESEARCH, STRATEGY} \subseteq DOMAIN campaign.results

----------------------------------------------------------------------------
(* Properties of the two retry loops (specification RetrySpec) *)

\* retry_stage has called func once more
IsRetryPass == rs.pc = "try" /\ rs' # rs

\* C25: in one loop iteration run_stage is attempted at most max_retries
\* times and retry_stage calls its function at most max_attempts times;
\* both stop at the first success; both stop at once when the stage raises
\* a StageExecutionError with retryable false; retry_stage raises
\* RetryExhausted with max_attempts and the last error when every attempt
\* has failed retryably.
C25_BoundedRetries ==
    [][ /\ IsAttemptStep =>
              /\ retries < max_retries
              /\ last'.err = NoError => pc' = "gate"
              /\ (last'.cause # NoError /\ ~last'.cause.retryable)
                   => pc' = "exit"
        /\ IsRetryPass =>
              /\ rs'.calls <= rs.max_attempts
              /\ Len(rs'.errors) < rs'.calls => rs'.pc = "returned"
              /\ ( Len(rs'.errors) = rs'.calls
                   /\ ~rs'.errors[Len(rs'.errors)].retryable )
                   => /\ rs'.pc = "raised"
                      /\ rs'.raised = rs'.errors[Len(rs'.errors)]
              /\ ( /\ rs'.calls = rs.max_attempts
                   /\ Len(rs'.errors) = rs'.calls
                   /\ \A i \in 1..Len(rs'.errors) : rs'.errors[i].retryable )
                   => /\ rs'.pc = "raised"
                      /\ rs'.raised =
                           RetryExhausted(rs.max_attempts,
                                          rs'.errors[Len(rs'.errors)]) ]_vars

\* what holds: the same with the loop stopping at once on an error that
\* reaches it with retryable false
BoundedRetriesAsCaught ==
    [][ /\ IsAttemptStep =>
              /\ retries < max_retries
              /\ last'.err = NoError => pc' = "gate"
              /\ (last'.err # NoError /\ ~last'.err.retryable)
                   => pc' = "exit"
        /\ IsRetryPass =>
              /\ rs'.calls <= rs.max_attempts
              /\ Len(rs'.errors) < rs'.calls => rs'.pc = "returned"
              /\ ( Len(rs'.errors) = rs'.calls
                   /\ ~rs'.errors[Len(rs'.errors)].retryable )
                   => /\ rs'.pc = "raised"
                      /\ rs'.raised = rs'.errors[Len(rs'.errors)]
              /\ ( /\ rs'.calls = rs.max_attempts
                   /\ Len(rs'.errors) = rs'.calls
                   /\ \A i \in 1..Len(rs'.errors) : rs'.errors[i].retryable )
                   => /\ rs'.pc = "raised"
                      /\ rs'.raised =
                           RetryExhausted(rs.max_attempts,
                                          rs'.errors[Len(rs'.errors)]) ]_vars

----------------------------------------------------------------------------
(* Properties of the auto-approved run (specification AutoSpec) *)

\* every stage before the current one has been executed once, the current
\* one once when the loop is at its gate, no later one
ExecutedOnceInOrder ==
    \A s \in ExecutorStages :
        execCalls[s] =
            IF \/ StageIndex(s) < StageIndex(campaign.current_stage)
               \/ s = campaign.current_stage /\ pc = "gate"
            THEN 1 ELSE 0

\* the store holds the campaign as it was after its latest advance
SavedAfterAdvance ==
    /\ load(store, campaign.id) # NoCampaign
    /\ load(store, campaign.id).current_stage = campaign.current_stage
    /\ \A s \in DOMAIN campaign.results :
         campaign.results[s].approved
           => /\ s \in DOMAIN load(store, campaign.id).results
              /\ load(store, campaign.id).results[s].approved

AutoDone ==
    /\ pc = "exit" /\ exitCode = 0
    /\ campaign.current_stage = DONE
    /\ \A s \in ExecutorStages : execCalls[s] = 1

\* C26: with auto-approve on and every executor succeeding, the loop on a
\* fresh campaign terminates with current_stage = DONE, having executed
\* RESEARCH..PACKAGING exactly once each in order and saved after each
\* advance.
C26_AutoRunCompletes ==
    /\ [](pc # "idle" => (ExecutedOnceInOrder /\ SavedAfterAdvance))
    /\ <>[]AutoDone

C26_Witness ==
    /\ AutoDone /\ auto
    /\ load(store, "c1").current_stage = DONE
    /\ DOMAIN campaign.results = ExecutorStages

----------------------------------------------------------------------------
(* Resume after quit (specification LoopSpec) *)

\* a resumed process is about to run its first stage, for which the store
\* holds an unapproved result, as a quit at that stage has left it
ResumedAtQuit ==
    /\ pc = "run" /\ gate = NoGate /\ campaign # NoCampaign
    /\ campaign.id \in DOMAIN store.stage_results
    /\ campaign.current_stage \in DOMAIN store.stage_results[campaign.id]
    /\ store.stage_results[campaign.id][campaign.current_stage].approved = 0

\* C27: after a quit at S has persisted S's unapproved result with its
\* inputs hash, the resumed loop presents S's persisted artifact at the
\* gate again without invoking S's executor.
C27_ResumeReplaysPersisted ==
    [][ (ResumedAtQuit /\ IsAttemptStep) =>
          LET row == store.stage_results[campaign.id][campaign.current_stage]
          IN  /\ ~last'.invoked
              /\ pc' = "gate"
              /\ artifact'.kind = "model"
              /\ artifact'.body = json_loads(row.artifact).body
              /\ campaign' = campaign
              /\ store' = store ]_vars

C27_Witness ==
    /\ pc = "gate" /\ gate = NoGate /\ ops = 1
    /\ last.op = "run_stage" /\ ~last.invoked /\ last.err = NoError
    /\ last.stage = campaign.current_stage
    /\ campaign.id \in DOMAIN store.stage_results
    /\ campaign.current_stage \in DOMAIN store.stage_results[campaign.id]
    /\ store.stage_results[campaign.id][campaign.current_stage].approved = 0
    /\ artifact.body = campaign.results[campaign.current_stage].artifact.body

----------------------------------------------------------------------------
(* Shape of what the loop saves (specification LoopSpec) *)

\* the persisted campaign p has an approved result for every stage between
\* INTAKE and its current stage, and none or an unapproved one for its
\* current stage
ApprovedBelowCurrent(p) ==
    \A s \in ExecutorStages :
        /\ StageIndex(s) < StageIndex(p.current_stage)
             => (s \in DOMAIN p.results /\ p.results[s].approved)
        /\ (s = p.current_stage /\ s \in DOMAIN p.results)
             => ~p.results[s].approved

\* C28: whatever the loop has saved (after an advance, after quit, after a
\* failed stage, across resume), every stage strictly between INTAKE and
\* current_stage has a stored result with approved = true, and the stage
\* at current_stage has no result or an unapproved one.
C28_SavedApprovedBelowCurrent ==
    \A id \in DOMAIN store.campaigns : ApprovedBelowCurrent(load(store, id))

\* approve at RESEARCH, then quit at STRATEGY: the store holds RESEARCH
\* approved and STRATEGY unapproved
C28_Witness ==
    /\ pc = "exit" /\ gate.action = QUIT
    /\ "c1" \in DOMAIN store.campaigns
    /\ load(store, "c1").current_stage = STRATEGY
    /\ {RESEARCH, STRATEGY} \subseteq DOMAIN load(store, "c1").results
    /\ load(store, "c1").results[RESEARCH].approved
    /\ ~load(store, "c1").results[STRATEGY].approved

----------------------------------------------------------------------------
(* Properties of the token counter (specification CostSpec) *)

\* C29: after any sequence of update_cost and save on one id, the persisted
\* total_tokens is the value first saved plus the sum of the tokens passed
\* to update_cost, so the persisted counter never decreases.
C29_TokensAccumulate ==
    \A id \in DOMAIN store.campaigns :
        store.campaigns[id].total_tokens = campaign.total_tokens + passed[id]

\* what holds: update_cost adds to the row, and a campaign loaded after it
\* carries the sum
UpdateCostAdds ==
    [][ IsCall("update_cost") =>
          \A id \in DOMAIN store.campaigns :
              /\ id \in DOMAIN store'.campaigns
              /\ store'.campaigns[id].total_tokens
                   = store.campaigns[id].total_tokens
                     + (passed'[id] - passed[id])
              /\ load(store', id).total_tokens
                   = store'.campaigns[id].total_tokens ]_vars

----------------------------------------------------------------------------
(* Properties of the agency prototype (specification AgencySpec) *)

\* C30: in the interactive pipeline the persisted stage field only moves
\* forward along research, strategy, creative, activation, done, staying
\* put on quit and regenerate; whenever the persisted stage is S the
\* results of all stages before S are stored; so no run or resume ends
\* for want of an earlier result.
C30_StageForwardResultsStored ==
    /\ [][ /\ (agency.file.exists /\ agency'.file.exists)
                => StagePlace(agency'.file.stage)
                     >= StagePlace(agency.file.stage)
           /\ ( /\ agency.proc.pc = "gate"
                /\ agency'.proc.answer \in {"quit", "regenerate"} )
                => agency'.file.stage = agency.file.stage ]_vars
    /\ [](agency.file.exists =>
            \A i \in 1..4 :
                i < StagePlace(agency.file.stage)
                  => agency.file.results[STAGES[i]] # 0)
    /\ [](agency.proc.exit # "missing")

\* after approve, approve and a quit at creative, resume is at the creative
\* gate with research and strategy loaded from the file
C30_Witness ==
    /\ agency.proc.cmd = "resume" /\ agency.proc.pc = "gate"
    /\ agency.proc.current = "creative"
    /\ agency.file.stage = "creative"
    /\ agency.file.results["research"] # 0
    /\ agency.file.results["strategy"] # 0
    /\ agency.file.results["creative"] # 0

====
